---- MODULE Spec2Model ----
(***************************************************************************)
(* A model of src/src/generate-feed.ts (the current variant of the         *)
(* generator, lines 268-607): one run of main() reads the configuration,   *)
(* fetches the releases of every configured repository in turn, filters    *)
(* and caps them, merges and sorts the items and writes the feed.          *)
(*                                                                         *)
(* Conventions.  A JavaScript string is a sequence of one-character        *)
(* strings.  An optional value (undefined or null in the code) is <<>>     *)
(* when absent and <<x>> when present.                                     *)
(***************************************************************************)
EXTENDS Integers, Sequences, FiniteSets, TLC

VARIABLES
    config,        \* the content of repos.json (environment)
    api,           \* api[i]: the API's answer to the request of target i (environment)
    clock,         \* the wall clock read by new Date() during this run
    run,           \* number of the current run of the process
    previous,      \* docs/feed.xml as the run before this one wrote it: <<>> or <<document>>
    pc,            \* position of main(): start, fetch, build, done, failed
    repositories,  \* main: const repositories
    idx,           \* main: position of the for loop over repositories (1-based)
    results,       \* main: const results
    errors,        \* main: const errors
    requests,      \* the HTTP requests issued so far, in order
    output,        \* docs/feed.xml as written by this run: <<>> or <<document>>
    warned,        \* the lines of the final console.warn about failed repositories
    exitCode,      \* process.exitCode
    tagArg,        \* argument of a stand-alone call of isMajorOrMinorRelease
    tagRet,        \* its result: <<>> before the call, <<TRUE>> or <<FALSE>> after
    cdataArg,      \* argument of a stand-alone call of wrapInCdata
    cdataRet,      \* its result: <<>> before the call, <<element>> after
    bodyArg,       \* body of a release rendered on its own: <<>> or <<body>>
    itemRet        \* its <item> element: <<>> before the call, <<element>> after

vars == <<config, api, clock, run, previous, pc, repositories, idx, results,
          errors, requests, output, warned, exitCode, tagArg, tagRet,
          cdataArg, cdataRet, bodyArg, itemRet>>

runVars == <<pc, repositories, idx, results, errors, requests, output, warned,
             exitCode>>
envVars == <<config, api>>
callVars == <<tagArg, tagRet, cdataArg, cdataRet, bodyArg, itemRet>>

----------------------------------------------------------------------------
(* Generic helpers *)

None == <<>>
Some(x) == <<x>>
Min(a, b) == IF a <= b THEN a ELSE b
Max(a, b) == IF a >= b THEN a ELSE b

\* Array.prototype.slice(0, end) for an integer end.
SliceTo(s, end) ==
    LET last == IF end < 0 THEN Max(Len(s) + end, 0) ELSE Min(end, Len(s))
    IN  SubSeq(s, 1, last)

\* String.prototype.startsWith at position i (1-based).
StartsWithAt(s, i, p) ==
    /\ i + Len(p) - 1 <= Len(s)
    /\ \A k \in 1..Len(p) : s[i + k - 1] = p[k]

\* String.prototype.split on a one-character separator.
RECURSIVE SplitOn(_, _)
SplitOn(s, c) ==
    IF \A k \in 1..Len(s) : s[k] # c THEN <<s>>
    ELSE LET i == CHOOSE k \in 1..Len(s) :
                      s[k] = c /\ \A j \in 1..(k - 1) : s[j] # c
         IN  <<SubSeq(s, 1, i - 1)>> \o SplitOn(SubSeq(s, i + 1, Len(s)), c)

\* The least element of a non-empty set of positions.
MinOf(positions) == CHOOSE k \in positions : \A j \in positions : k <= j

RECURSIVE Concat(_)
Concat(ss) == IF ss = <<>> THEN <<>> ELSE Head(ss) \o Concat(Tail(ss))

----------------------------------------------------------------------------
(* isMajorOrMinorRelease and the regular expression it uses *)

Digits == {"0", "1", "2", "3", "4", "5", "6", "7", "8", "9"}
LineTerminators == {"\n", "\r"}

IsDigits(s) == Len(s) >= 1 /\ \A k \in 1..Len(s) : s[k] \in Digits

DigitValue(c) ==
    CASE c = "0" -> 0 [] c = "1" -> 1 [] c = "2" -> 2 [] c = "3" -> 3
      [] c = "4" -> 4 [] c = "5" -> 5 [] c = "6" -> 6 [] c = "7" -> 7
      [] c = "8" -> 8 [] c = "9" -> 9

\* Number(digits) for a string of decimal digits.
RECURSIVE ToNumber(_)
ToNumber(s) ==
    IF s = <<>> THEN 0
    ELSE 10 * ToNumber(SubSeq(s, 1, Len(s) - 1)) + DigitValue(s[Len(s)])

\* Length of the longest run of digits of s starting at position i.
RECURSIVE DigitRun(_, _)
DigitRun(s, i) ==
    IF i <= Len(s) /\ s[i] \in Digits THEN 1 + DigitRun(s, i + 1) ELSE 0

\* A pattern that matches a prefix of the tag: no '$'.
MutSuffixUnanchored(s, i) == TRUE

\* A pattern with no suffix group.
MutNoSuffixGroup(s, i) == i = Len(s) + 1

\* (?<suffix>[-+].*)?$ at position i: the end of the string, or a '-' or
\* '+' followed by characters none of which is a line terminator ('.'
\* without the s flag), up to the end of the string ('$' without the m flag).
SuffixMatchesAt(s, i) ==
    \/ i = Len(s) + 1
    \/ /\ i <= Len(s)
       /\ s[i] \in {"-", "+"}
       /\ \A k \in (i + 1)..Len(s) : s[k] \notin LineTerminators

\* tag.match(semverRegex): <<>> when the tag does not match, else
\* <<groups>> with groups.patch optional.  \d+ is greedy and is followed by
\* a character that is no digit, so each number is a maximal run of digits;
\* the optional patch group is tried first and given up when the rest of
\* the tag then fails to match.
SemverMatch(tag) ==
    LET v     == IF Len(tag) >= 1 /\ tag[1] = "v" THEN 1 ELSE 0
        attempt(start) ==
            LET n1 == DigitRun(tag, start)
                d1 == start + n1
                n2 == DigitRun(tag, d1 + 1)
                e2 == d1 + 1 + n2
                n3 == DigitRun(tag, e2 + 1)
                e3 == e2 + 1 + n3
                head == /\ n1 >= 1
                        /\ d1 <= Len(tag) /\ tag[d1] = "."
                        /\ n2 >= 1
                withPatch == /\ head
                             /\ e2 <= Len(tag) /\ tag[e2] = "."
                             /\ n3 >= 1
                             /\ SuffixMatchesAt(tag, e3)
                noPatch == head /\ SuffixMatchesAt(tag, e2)
            IN  IF withPatch
                THEN Some([major |-> SubSeq(tag, start, d1 - 1),
                           minor |-> SubSeq(tag, d1 + 1, e2 - 1),
                           patch |-> Some(SubSeq(tag, e2 + 1, e3 - 1))])
                ELSE IF noPatch
                THEN Some([major |-> SubSeq(tag, start, d1 - 1),
                           minor |-> SubSeq(tag, d1 + 1, e2 - 1),
                           patch |-> None])
                ELSE None
    \* When 'v?' gives up its 'v', \d+ meets that 'v' and fails: one attempt
    \* decides the match.
    IN  attempt(1 + v)

\* Number.isInteger of the value of a digit string: every digit string
\* within the bounds of this model converts to a finite integer.
NumberIsInteger(n) == n \in Int

\* src: function isMajorOrMinorRelease(tag: string | undefined): boolean.
\* tag is optional: <<>> for undefined, <<chars>> for a string.
isMajorOrMinorRelease(tag) ==
    IF tag = None \/ tag[1] = <<>> THEN FALSE
    ELSE LET match == SemverMatch(tag[1])
         IN  IF match = None THEN FALSE
             ELSE LET g == match[1]
                      majorNumber == ToNumber(g.major)
                      minorNumber == ToNumber(g.minor)
                      patchNumber == IF g.patch # None /\ g.patch[1] # <<>>
                                     THEN ToNumber(g.patch[1]) ELSE 0
                  IN  IF ~(/\ NumberIsInteger(majorNumber)
                           /\ NumberIsInteger(minorNumber)
                           /\ NumberIsInteger(patchNumber))
                      THEN FALSE
                      ELSE patchNumber = 0

----------------------------------------------------------------------------
(* Configuration: loadRepoList and parseConfigEntry *)

\* src: const DEFAULT_MAX_RELEASES_PER_REPO = 10
DEFAULT_MAX_RELEASES_PER_REPO == 10

\* repos.json.  kind is "unreadable" (readFile rejects), "badjson"
\* (JSON.parse throws), "nolist" (no "repositories" array) or "list".
ConfigFile(kind, entries) == [kind |-> kind, repositories |-> entries]

\* The entries of a configuration list.  An entry is a JSON string, a JSON
\* object (slug is <<>> when the object has no string slug) or another
\* JSON value (null, a number, ...).
StringEntry(slug) == [type |-> "string", slug |-> Some(slug),
                      maxReleases |-> None, includePatchReleases |-> None]
ObjectEntry(slug, maxReleases, includePatchReleases) ==
    [type |-> "object", slug |-> slug, maxReleases |-> maxReleases,
     includePatchReleases |-> includePatchReleases]
OtherEntry == [type |-> "other", slug |-> None, maxReleases |-> None,
               includePatchReleases |-> None]

\* src: loadRepoList.  <<>> when it throws, else <<parsed.repositories>>.
loadRepoList(file) ==
    IF file.kind = "list" THEN Some(file.repositories) ELSE None

\* src: parseConfigEntry.  <<>> when it throws, else <<NormalizedRepoConfig>>.
\* includePatchReleases is not read: NormalizedRepoConfig has no such field.
parseConfigEntry(entry) ==
    IF entry.type = "string"
    THEN Some([slug |-> entry.slug[1],
               maxReleases |-> DEFAULT_MAX_RELEASES_PER_REPO])
    ELSE IF entry.type = "object" /\ entry.slug # None
    THEN Some([slug |-> entry.slug[1],
               maxReleases |-> IF entry.maxReleases # None
                               THEN entry.maxReleases[1]
                               ELSE DEFAULT_MAX_RELEASES_PER_REPO])
    ELSE None

\* A loader that skips the entries it cannot parse.
MutSkipInvalidEntries(entries) ==
    LET good(e) == parseConfigEntry(e) # None
        kept == SelectSeq(entries, good)
    IN  Some([k \in 1..Len(kept) |-> parseConfigEntry(kept[k])[1]])

\* src: rawEntries.map(parseConfigEntry): throws as a whole when any entry
\* throws, before main goes on.
ParseEntries(entries) ==
    IF \E k \in 1..Len(entries) : parseConfigEntry(entries[k]) = None
    THEN None
    ELSE Some([k \in 1..Len(entries) |-> parseConfigEntry(entries[k])[1]])

----------------------------------------------------------------------------
(* fetchReleasesForRepo *)

\* slug.split('/'): the pieces between the slashes (at least one piece).
SplitSlash(s) == SplitOn(s, "/")

\* const [owner, repo] = slug.split('/'): a missing piece is undefined.
SlugOwner(slug) == SplitSlash(slug)[1]
SlugRepo(slug) ==
    IF Len(SplitSlash(slug)) >= 2 THEN SplitSlash(slug)[2] ELSE <<>>

\* if (!owner || !repo) throw: undefined and '' are both falsy.
SlugIsValid(slug) == SlugOwner(slug) # <<>> /\ SlugRepo(slug) # <<>>

\* The request of one target: the URL's owner and repo and its per_page.
RequestFor(repo) ==
    [owner |-> SlugOwner(repo.slug), repo |-> SlugRepo(repo.slug),
     per_page |-> Min(repo.maxReleases * 2, 50)]

\* An API answer: response.ok, whether the body is a JSON list, the list.
Response(ok, isList, releases) ==
    [ok |-> ok, isList |-> isList, releases |-> releases]

\* A timestamp string of the API: a date the Date constructor parses, at
\* `at` seconds from the epoch, or a string it does not parse.
DateString(at) == [valid |-> TRUE, at |-> at]
InvalidDateString == [valid |-> FALSE, at |-> 0]

\* A GitHubRelease.  tag_name, body, published_at, created_at are optional.
Release(html_url, tag_name, draft, prerelease, published_at, created_at, body) ==
    [html_url |-> html_url, tag_name |-> tag_name, draft |-> draft,
     prerelease |-> prerelease, published_at |-> published_at,
     created_at |-> created_at, body |-> body]

\* A filter that forgets the prerelease flag.
MutDraftOnly(release) == ~release.draft

\* src: .filter((release) => !release.draft && !release.prerelease)
NotDraftNorPrerelease(release) == ~release.draft /\ ~release.prerelease

\* src: .filter((release) => isMajorOrMinorRelease(release.tag_name))
TagQualifies(release) == isMajorOrMinorRelease(release.tag_name)

\* A release body: its markdown text, together with the HTML that
\* marked.parse (a library, not part of this repository) renders the
\* trimmed text to.
Body(markdown, html) == [markdown |-> markdown, html |-> html]
EmptyBody == Body(<<>>, <<>>)

\* src: renderMarkdownToHtml.  An empty or whitespace-only body gives ''
\* without calling marked.parse; any other body gives the trimmed output
\* of marked.parse.
IsSpace(c) == c \in {" ", "\t", "\n", "\r"}
RECURSIVE TrimStart(_)
TrimStart(s) == IF s # <<>> /\ IsSpace(Head(s)) THEN TrimStart(Tail(s)) ELSE s
RECURSIVE TrimEnd(_)
TrimEnd(s) ==
    IF s # <<>> /\ IsSpace(s[Len(s)]) THEN TrimEnd(SubSeq(s, 1, Len(s) - 1))
    ELSE s
Trim(s) == TrimEnd(TrimStart(s))
renderMarkdownToHtml(body) ==
    IF Trim(body.markdown) = <<>> THEN <<>> ELSE Trim(body.html)

\* src: the .map of fetchReleasesForRepo: one FeedItem per kept release.
\* name and id are not modelled apart from htmlUrl: the API gives every
\* release an html_url, and then id = htmlUrl.
ToFeedItem(slug, release) ==
    [repoSlug |-> slug,
     htmlUrl |-> release.html_url,
     tagName |-> IF release.tag_name # None THEN release.tag_name[1]
                 ELSE <<"u", "n", "k", "n", "o", "w", "n">>,
     publishedAt |-> IF release.published_at # None
                     THEN release.published_at ELSE release.created_at,
     descriptionHtml |-> renderMarkdownToHtml(
                             IF release.body # None THEN release.body[1]
                             ELSE EmptyBody),
     id |-> release.html_url]

\* A pipeline that caps the answer before it filters it.
MutCapBeforeFilter(releases, maxReleases) ==
    SelectSeq(SelectSeq(SliceTo(releases, maxReleases), NotDraftNorPrerelease),
              TagQualifies)

\* src: releases.filter(...).filter(...).slice(0, maxReleases).map(...)
KeptReleases(releases, maxReleases) ==
    SliceTo(SelectSeq(SelectSeq(releases, NotDraftNorPrerelease), TagQualifies),
            maxReleases)

FeedItemsOf(repo, releases) ==
    LET kept == KeptReleases(releases, repo.maxReleases)
    IN  [k \in 1..Len(kept) |-> ToFeedItem(repo.slug, kept[k])]

\* The outcome of fetchReleasesForRepo(repo) when the API answers `response`:
\* "slug" (throws before any request), "http", "format" (throw after the
\* request) or "ok".
FetchOutcome(repo, response) ==
    IF ~SlugIsValid(repo.slug) THEN "slug"
    ELSE IF ~response.ok THEN "http"
    ELSE IF ~response.isList THEN "format"
    ELSE "ok"

----------------------------------------------------------------------------
(* formatRssDate, wrapInCdata and buildRssFeed *)

\* Date.prototype.getTime of new Date(x) for x a timestamp string or 0:
\* <<seconds>>, or <<>> for NaN (an invalid date).
DateOfString(str) == IF str.valid THEN Some(str.at) ELSE None

\* Date.prototype.toUTCString: the text of an instant, or 'Invalid Date'.
ToUTCString(time) == [utc |-> time]

\* src: formatRssDate(isoDate?: string): the current time when isoDate is
\* undefined (or ''), read from the clock at the call.
formatRssDate(isoDate, now) ==
    IF isoDate # None THEN ToUTCString(DateOfString(isoDate[1]))
    ELSE ToUTCString(Some(now))

CdataOpen == <<"<", "!", "[", "C", "D", "A", "T", "A", "[">>
CdataEnd == <<"]", "]", ">">>
\* src: the replacement ']]]]><![CDATA[>'
CdataSplit == <<"]", "]">> \o CdataEnd \o CdataOpen \o <<">">>

\* A replace without the g flag: only the first occurrence is split.
MutReplaceFirstOnly(s) ==
    IF s = <<>> THEN <<>>
    ELSE IF \E j \in 1..Len(s) : StartsWithAt(s, j, CdataEnd)
    THEN LET j == CHOOSE k \in 1..Len(s) :
                      /\ StartsWithAt(s, k, CdataEnd)
                      /\ \A h \in 1..(k - 1) : ~StartsWithAt(s, h, CdataEnd)
         IN  SubSeq(s, 1, j - 1) \o CdataSplit \o SubSeq(s, j + 3, Len(s))
    ELSE s

\* value.replace(/\]\]>/g, ...): the occurrences are found left to right,
\* each search resuming after the previous occurrence.
RECURSIVE ReplaceCdataEnd(_)
ReplaceCdataEnd(s) ==
    LET hits == {k \in 1..Len(s) : StartsWithAt(s, k, CdataEnd)}
    IN  IF hits = {} THEN s
        ELSE SubSeq(s, 1, MinOf(hits) - 1) \o CdataSplit
             \o ReplaceCdataEnd(SubSeq(s, MinOf(hits) + 3, Len(s)))

\* src: wrapInCdata(tagName, value)
wrapInCdata(tagName, value) ==
    LET safeValue == ReplaceCdataEnd(value)
    IN  <<"<">> \o tagName \o <<">">> \o CdataOpen \o safeValue \o CdataEnd
        \o <<"<", "/">> \o tagName \o <<">">>

ContentTag ==
    <<"c", "o", "n", "t", "e", "n", "t", ":", "e", "n", "c", "o", "d", "e", "d">>
\* src: '<p>No release notes provided.</p>'
FallbackContent ==
    <<"<", "p", ">", "N", "o", " ", "r", "e", "l", "e", "a", "s", "e", " ",
      "n", "o", "t", "e", "s", " ", "p", "r", "o", "v", "i", "d", "e", "d",
      ".", "<", "/", "p", ">">>

\* src: wrapInCdata('content:encoded', '<p>No release notes provided.</p>')
FallbackContentElement == wrapInCdata(ContentTag, FallbackContent)

\* The i flag of a regular expression: letters compare by their lower case.
UpperLetters ==
    <<"A", "B", "C", "D", "E", "F", "G", "H", "I", "J", "K", "L", "M", "N",
      "O", "P", "Q", "R", "S", "T", "U", "V", "W", "X", "Y", "Z">>
LowerLetters ==
    <<"a", "b", "c", "d", "e", "f", "g", "h", "i", "j", "k", "l", "m", "n",
      "o", "p", "q", "r", "s", "t", "u", "v", "w", "x", "y", "z">>
Lower(c) ==
    IF \E k \in 1..26 : UpperLetters[k] = c
    THEN LowerLetters[CHOOSE k \in 1..26 : UpperLetters[k] = c]
    ELSE c
StartsWithAtNoCase(s, i, p) ==
    /\ i + Len(p) - 1 <= Len(s)
    /\ \A k \in 1..Len(p) : Lower(s[i + k - 1]) = p[k]

ScriptOpen == <<"<", "s", "c", "r", "i", "p", "t">>
ScriptClose == <<"<", "/", "s", "c", "r", "i", "p", "t", ">">>
StyleOpen == <<"<", "s", "t", "y", "l", "e">>
StyleClose == <<"<", "/", "s", "t", "y", "l", "e", ">">>
NbspEntity == <<"&", "n", "b", "s", "p", ";">>

\* Where a match of /<script[\s\S]*?<\/script>/i (or the style one) that
\* starts at i ends: the position after the nearest closing tag, 0 when
\* there is no match at i.
BlockEnd(s, i, open, close) ==
    IF ~StartsWithAtNoCase(s, i, open) THEN 0
    ELSE LET ends == {j \in (i + Len(open))..Len(s) : StartsWithAtNoCase(s, j, close)}
         IN  IF ends = {} THEN 0 ELSE MinOf(ends) + Len(close)

\* Where a match of /<[^>]+>/ that starts at i ends: the nearest '>' has to
\* be at least two positions after the '<'.
TagEnd(s, i) ==
    IF s[i] # "<" THEN 0
    ELSE LET ends == {j \in (i + 1)..Len(s) : s[j] = ">"}
         IN  IF ends = {} \/ MinOf(ends) = i + 1 THEN 0 ELSE MinOf(ends) + 1

\* Where a match of /\s+/ that starts at i ends.
SpaceEnd(s, i) ==
    IF ~IsSpace(s[i]) THEN 0
    ELSE LET ends == {j \in (i + 1)..Len(s) : ~IsSpace(s[j])}
         IN  IF ends = {} THEN Len(s) + 1 ELSE MinOf(ends)

\* The five patterns of stripHtmlTags, by name.
MatchEnd(pattern, s, i) ==
    CASE pattern = "script" -> BlockEnd(s, i, ScriptOpen, ScriptClose)
      [] pattern = "style" -> BlockEnd(s, i, StyleOpen, StyleClose)
      [] pattern = "tag" -> TagEnd(s, i)
      [] pattern = "nbsp" -> IF StartsWithAtNoCase(s, i, NbspEntity) THEN i + 6 ELSE 0
      [] pattern = "space" -> SpaceEnd(s, i)

\* value.replace(/pattern/g, ' ') from position `from` on: the leftmost
\* match is replaced and the search goes on after it.
RECURSIVE ReplaceWithSpace(_, _, _)
ReplaceWithSpace(pattern, s, from) ==
    LET hits == {k \in from..Len(s) : MatchEnd(pattern, s, k) # 0}
    IN  IF hits = {} THEN SubSeq(s, from, Len(s))
        ELSE SubSeq(s, from, MinOf(hits) - 1) \o <<" ">>
             \o ReplaceWithSpace(pattern, s, MatchEnd(pattern, s, MinOf(hits)))

\* src: stripHtmlTags
stripHtmlTags(value) ==
    LET noScript == ReplaceWithSpace("script", value, 1)
        noStyle == ReplaceWithSpace("style", noScript, 1)
        noTags == ReplaceWithSpace("tag", noStyle, 1)
        noNbsp == ReplaceWithSpace("nbsp", noTags, 1)
        oneSpace == ReplaceWithSpace("space", noNbsp, 1)
    IN  Trim(oneSpace)

\* src: const fallback = 'No release notes provided.'
SummaryFallback ==
    <<"N", "o", " ", "r", "e", "l", "e", "a", "s", "e", " ", "n", "o", "t",
      "e", "s", " ", "p", "r", "o", "v", "i", "d", "e", "d", ".">>
MAX_LENGTH == 300

\* A summary without the fallback for text that strips to nothing.
MutSummaryOfTextOnly(html) ==
    IF html = <<>> THEN SummaryFallback ELSE stripHtmlTags(html)

\* src: buildSummary
buildSummary(html) ==
    IF html = <<>> THEN SummaryFallback
    ELSE LET text == stripHtmlTags(html)
         IN  IF text = <<>> THEN SummaryFallback
             ELSE IF Len(text) <= MAX_LENGTH THEN text
             ELSE Trim(SliceTo(text, MAX_LENGTH - 3)) \o <<".", ".", ".">>

\* value.replace(/c/g, entity) for one character c, from position `from` on.
RECURSIVE ReplaceCharacter(_, _, _, _)
ReplaceCharacter(s, from, c, entity) ==
    LET hits == {k \in from..Len(s) : s[k] = c}
    IN  IF hits = {} THEN SubSeq(s, from, Len(s))
        ELSE SubSeq(s, from, MinOf(hits) - 1) \o entity
             \o ReplaceCharacter(s, MinOf(hits) + 1, c, entity)

\* src: escapeXml: five replacements in turn, '&' first.
escapeXml(value) ==
    LET amp == ReplaceCharacter(value, 1, "&", <<"&", "a", "m", "p", ";">>)
        lt == ReplaceCharacter(amp, 1, "<", <<"&", "l", "t", ";">>)
        gt == ReplaceCharacter(lt, 1, ">", <<"&", "g", "t", ";">>)
        quot == ReplaceCharacter(gt, 1, "\"", <<"&", "q", "u", "o", "t", ";">>)
    IN  ReplaceCharacter(quot, 1, "'", <<"&", "a", "p", "o", "s", ";">>)

\* The sort key of buildRssFeed: new Date(item.publishedAt ?? 0).getTime().
SortTime(item) ==
    IF item.publishedAt # None THEN DateOfString(item.publishedAt[1])
    ELSE Some(0)

\* A comparator that sorts oldest first.
MutCompareAscending(a, b) ==
    IF SortTime(a) = None \/ SortTime(b) = None THEN 0
    ELSE SortTime(a)[1] - SortTime(b)[1]

\* The comparator of buildRssFeed, as Array.prototype.sort reads it: a
\* NaN result counts as +0.
Compare(a, b) ==
    IF SortTime(a) = None \/ SortTime(b) = None THEN 0
    ELSE SortTime(b)[1] - SortTime(a)[1]

\* Whether the comparator orders the items consistently: with NaN read as
\* 0 the only way it cannot is that 'compares equal' is not transitive.
ConsistentComparator(items) ==
    \A i, j, k \in 1..Len(items) :
        Compare(items[i], items[j]) = 0 /\ Compare(items[j], items[k]) = 0
            => Compare(items[i], items[k]) = 0

\* A stable sort by Compare: each item goes after every item already
\* placed that does not have to come after it.
RECURSIVE InsertSorted(_, _)
InsertSorted(sorted, item) ==
    IF sorted = <<>> THEN <<item>>
    ELSE IF Compare(Head(sorted), item) <= 0
    THEN <<Head(sorted)>> \o InsertSorted(Tail(sorted), item)
    ELSE <<item>> \o sorted

RECURSIVE StableSort(_)
StableSort(items) ==
    IF items = <<>> THEN <<>>
    ELSE InsertSorted(StableSort(SubSeq(items, 1, Len(items) - 1)),
                      items[Len(items)])

Reorderings(items) ==
    {[k \in 1..Len(items) |-> items[p[k]]] :
        p \in {q \in [1..Len(items) -> 1..Len(items)] :
                  \A i, j \in 1..Len(items) : i # j => q[i] # q[j]}}

\* items.sort(comparator): the stable sort (ECMAScript 2019, Node 18) when
\* the comparator is consistent; with an inconsistent comparator the order
\* is implementation-defined, any permutation.
SortOutcomes(items) ==
    IF ConsistentComparator(items) THEN {StableSort(items)}
    ELSE Reorderings(items)

\* One <item> element of buildRssFeed: the text of each element.  The
\* category and source elements are functions of repoSlug alone and are
\* left out of the record.
ItemElement(item, now) ==
    [title |-> <<item.repoSlug, item.tagName>>,
     description |-> escapeXml(buildSummary(item.descriptionHtml)),
     link |-> item.htmlUrl,
     guid |-> [isPermaLink |-> item.id = item.htmlUrl, value |-> item.id],
     pubDate |-> formatRssDate(item.publishedAt, now),
     content |-> IF item.descriptionHtml # <<>>
                 THEN wrapInCdata(ContentTag, item.descriptionHtml)
                 ELSE FallbackContentElement]

\* src: buildRssFeed(items) for one outcome `sorted` of items.sort.
buildRssFeed(sorted, now) ==
    [lastBuildDate |-> formatRssDate(Some(DateString(now)), now),
     items |-> [k \in 1..Len(sorted) |-> ItemElement(sorted[k], now)]]

----------------------------------------------------------------------------
(* The environments the runs are checked in: a configuration file and the *)
(* API's answer to each target's request.                                  *)

MaxClassifyLen == 2   \* releases per answer, classification family
MaxCapLen == 5        \* releases per answer, cap family
MaxCap == 2           \* largest configured maxReleases, cap family
MaxSortLen == 2       \* releases of the first repository, ordering family
MaxTargets == 3       \* configuration entries, failure family
MaxRuns == 2          \* runs of the process in a row

SlugA == <<"o", "/", "a">>
SlugB == <<"o", "/", "b">>
SlugNoRepo == <<"o">>
TagMinor == <<"v", "1", ".", "1">>
TagPatch == <<"v", "1", ".", "0", ".", "1">>
TagOther == <<"x", "1">>

\* What distinguishes the releases of an answer, apart from their URL.
Kind(tag_name, draft, prerelease, published_at, created_at) ==
    [tag_name |-> tag_name, draft |-> draft, prerelease |-> prerelease,
     published_at |-> published_at, created_at |-> created_at]
PlainKind(tag) == Kind(Some(tag), FALSE, FALSE, Some(DateString(1)), None)

\* The answer to target i's request listing releases of the given kinds;
\* html_url is unique per release, as the API guarantees.
Releases(i, kinds) ==
    [k \in 1..Len(kinds) |->
        Release(<<i, k>>, kinds[k].tag_name, kinds[k].draft, kinds[k].prerelease,
                kinds[k].published_at, kinds[k].created_at, None)]
OkResponse(i, kinds) == Response(TRUE, TRUE, Releases(i, kinds))
HttpError == Response(FALSE, FALSE, <<>>)
NotAList == Response(TRUE, FALSE, <<>>)

\* The environment of a run: the configuration file and the answers.
World(file, answers) == config = file /\ api = answers

\* Classification: one repository under each patch policy, every mix of
\* tag shape and draft/prerelease flags.
ClassifyKinds ==
    {Kind(t, d, p, Some(DateString(1)), None) :
        t \in {Some(TagMinor), Some(TagPatch), Some(TagOther)},
        d \in BOOLEAN, p \in BOOLEAN}
PolicyEntries ==
    {ObjectEntry(Some(SlugA), None, b) : b \in {None, Some(TRUE), Some(FALSE)}}
WorldsClassify ==
    \E e \in PolicyEntries, n \in 0..MaxClassifyLen :
        \E ks \in [1..n -> ClassifyKinds] :
            World(ConfigFile("list", <<e>>), <<OkResponse(1, ks)>>)

\* Caps: a repository with any mix of qualifying and patch releases, alone
\* or followed by a second repository with qualifying releases only, under
\* the same maxReleases (which the configuration does not validate).
CapValues == {-1, 0} \cup (1..MaxCap)
CapEntry(slug, m) == ObjectEntry(Some(slug), Some(m), None)
WorldsCap ==
    \E m \in CapValues, n \in 0..MaxCapLen :
        \E ks \in [1..n -> {PlainKind(TagMinor), PlainKind(TagPatch)}] :
            \/ World(ConfigFile("list", <<CapEntry(SlugA, m)>>), <<OkResponse(1, ks)>>)
            \/ \E n2 \in 0..MaxCapLen :
                  World(ConfigFile("list", <<CapEntry(SlugA, m), CapEntry(SlugB, m)>>),
                        <<OkResponse(1, ks),
                          OkResponse(2, [k \in 1..n2 |-> PlainKind(TagMinor)])>>)

\* Ordering: two repositories whose qualifying releases carry every mix of
\* timestamps: none, a creation date only, dates before, at and after the
\* epoch, a date the Date constructor does not parse.
StampKinds ==
    {Kind(Some(TagMinor), FALSE, FALSE, s[1], s[2]) :
        s \in {<<None, None>>,
                <<None, Some(DateString(1))>>,
                <<Some(DateString(-1)), None>>,
                <<Some(DateString(0)), None>>,
                <<Some(DateString(1)), None>>,
                <<Some(DateString(2)), Some(DateString(1))>>,
                <<Some(InvalidDateString), None>>}}
WorldsSort ==
    \E n1 \in 0..MaxSortLen, n2 \in 0..1 :
        \E ks1 \in [1..n1 -> StampKinds], ks2 \in [1..n2 -> StampKinds] :
            World(ConfigFile("list", <<StringEntry(SlugA), StringEntry(SlugB)>>),
                  <<OkResponse(1, ks1), OkResponse(2, ks2)>>)

\* Failures: every kind of broken configuration file, and lists of valid
\* and invalid entries whose targets succeed or fail in every combination
\* (a target that is never requested has one answer only).
FailureEntries ==
    {StringEntry(SlugA), StringEntry(SlugB), StringEntry(SlugNoRepo),
     ObjectEntry(None, None, None), OtherEntry}
AnswersFor(entries) ==
    LET valid == \A k \in 1..Len(entries) : parseConfigEntry(entries[k]) # None
        options(k) ==
            IF valid /\ SlugIsValid(entries[k].slug[1])
            THEN {HttpError, NotAList, OkResponse(k, <<PlainKind(TagMinor)>>)}
            ELSE {HttpError}
    IN  {a \in [1..Len(entries) -> {HttpError, NotAList} \cup
                    {OkResponse(k, <<PlainKind(TagMinor)>>) : k \in 1..Len(entries)}] :
            \A k \in 1..Len(entries) : a[k] \in options(k)}
WorldsFailure ==
    \/ \E kind \in {"unreadable", "badjson", "nolist"} : World(ConfigFile(kind, <<>>), <<>>)
    \/ \E n \in 0..MaxTargets :
          \E es \in [1..n -> FailureEntries] :
              \E a \in AnswersFor(es) : World(ConfigFile("list", es), a)

----------------------------------------------------------------------------
(* The run of main() *)

\* The state of a process that has just started.
ProcessStarts ==
    /\ pc = "start"
    /\ repositories = <<>>
    /\ idx = 1
    /\ results = <<>>
    /\ errors = <<>>
    /\ requests = <<>>
    /\ output = None
    /\ warned = <<>>
    /\ exitCode = 0

NoCalls ==
    /\ tagArg = None
    /\ tagRet = None
    /\ cdataArg = <<>>
    /\ cdataRet = None
    /\ bodyArg = None
    /\ itemRet = None

Init ==
    /\ WorldsClassify \/ WorldsCap \/ WorldsSort \/ WorldsFailure
    /\ clock = 1
    /\ run = 1
    /\ previous = <<>>
    /\ ProcessStarts
    /\ NoCalls

\* src: main's rawEntries and repositories: <<>> when loadRepoList or
\* parseConfigEntry throws.
LoadedRepositories(file) ==
    IF loadRepoList(file) = None THEN None
    ELSE ParseEntries(loadRepoList(file)[1])

\* main().catch: console.error and process.exitCode = 1.
TopLevelCatch ==
    /\ pc' = "failed"
    /\ exitCode' = 1

\* loadRepoList or rawEntries.map(parseConfigEntry) throws.
ConfigFails ==
    /\ pc = "start"
    /\ LoadedRepositories(config) = None
    /\ TopLevelCatch
    /\ UNCHANGED <<repositories, idx, results, errors, requests, output, warned>>
    /\ UNCHANGED <<envVars, clock, run, previous, callVars>>

ConfigLoads ==
    /\ pc = "start"
    /\ LoadedRepositories(config) # None
    /\ repositories' = LoadedRepositories(config)[1]
    /\ pc' = "fetch"
    /\ UNCHANGED <<idx, results, errors, requests, output, warned, exitCode>>
    /\ UNCHANGED <<envVars, clock, run, previous, callVars>>

\* A catch block that swallows the error.
MutCatchForgets(errs, repo, outcome) == errs

\* src: errors.push(`- ${repo.slug}: ${message}`)
ErrorLine(repo, outcome) == [slug |-> repo.slug, message |-> outcome]
CatchTargetError(errs, repo, outcome) == Append(errs, ErrorLine(repo, outcome))

InLoop == pc = "fetch" /\ idx <= Len(repositories)

\* One iteration whose fetchReleasesForRepo throws on the slug.
TargetRejected ==
    /\ InLoop
    /\ FetchOutcome(repositories[idx], api[idx]) = "slug"
    /\ errors' = CatchTargetError(errors, repositories[idx], "slug")
    /\ idx' = idx + 1
    /\ UNCHANGED <<pc, repositories, results, requests, output, warned, exitCode>>
    /\ UNCHANGED <<envVars, clock, run, previous, callVars>>

\* One iteration whose request is answered by an error status or by a
\* body that is no list.
TargetFetchFails ==
    /\ InLoop
    /\ FetchOutcome(repositories[idx], api[idx]) \in {"http", "format"}
    /\ requests' = Append(requests, RequestFor(repositories[idx]))
    /\ errors' = CatchTargetError(errors, repositories[idx],
                                   FetchOutcome(repositories[idx], api[idx]))
    /\ idx' = idx + 1
    /\ UNCHANGED <<pc, repositories, results, output, warned, exitCode>>
    /\ UNCHANGED <<envVars, clock, run, previous, callVars>>

\* One iteration that succeeds: results.push(...releases).
TargetFetched ==
    /\ InLoop
    /\ FetchOutcome(repositories[idx], api[idx]) = "ok"
    /\ requests' = Append(requests, RequestFor(repositories[idx]))
    /\ results' = results \o FeedItemsOf(repositories[idx], api[idx].releases)
    /\ idx' = idx + 1
    /\ UNCHANGED <<pc, repositories, errors, output, warned, exitCode>>
    /\ UNCHANGED <<envVars, clock, run, previous, callVars>>

\* A main that builds and writes the feed while the loop still runs.
MutLoopRunning == pc = "fetch"

LoopDone == pc = "fetch" /\ idx > Len(repositories)

\* After the loop: buildRssFeed sorts results in place, writeFeed writes
\* the document, and the collected errors are printed as one warning.
FeedWritten ==
    /\ LoopDone
    /\ \E sorted \in SortOutcomes(results) :
          /\ results' = sorted
          /\ output' = Some(buildRssFeed(sorted, clock))
    /\ warned' = errors
    /\ pc' = "done"
    /\ UNCHANGED <<repositories, idx, errors, requests, exitCode>>
    /\ UNCHANGED <<envVars, clock, run, previous, callVars>>

\* After the loop: ensureOutputDir or fs.writeFile rejects.
WriteFails ==
    /\ LoopDone
    /\ \E sorted \in SortOutcomes(results) : results' = sorted
    /\ TopLevelCatch
    /\ UNCHANGED <<repositories, idx, errors, requests, output, warned>>
    /\ UNCHANGED <<envVars, clock, run, previous, callVars>>

Next ==
    \/ ConfigFails
    \/ ConfigLoads
    \/ TargetRejected
    \/ TargetFetchFails
    \/ TargetFetched
    \/ FeedWritten
    \/ WriteFails

Spec == Init /\ [][Next]_vars

----------------------------------------------------------------------------
(* A second run of the process on the same configuration and answers *)

Rerun ==
    /\ pc \in {"done", "failed"}
    /\ run < MaxRuns
    /\ run' = run + 1
    /\ clock' = clock + 1
    /\ previous' = output
    /\ pc' = "start"
    /\ repositories' = <<>>
    /\ idx' = 1
    /\ results' = <<>>
    /\ errors' = <<>>
    /\ requests' = <<>>
    /\ output' = None
    /\ warned' = <<>>
    /\ exitCode' = 0
    /\ UNCHANGED <<envVars, callVars>>

InitTwoRuns ==
    /\ WorldsSort \/ WorldsFailure
    /\ clock = 1
    /\ run = 1
    /\ previous = <<>>
    /\ ProcessStarts
    /\ NoCalls

NextTwoRuns ==
    \/ ConfigFails
    \/ ConfigLoads
    \/ TargetRejected
    \/ TargetFetchFails
    \/ TargetFetched
    \/ FeedWritten
    \/ WriteFails
    \/ Rerun

SpecTwoRuns == InitTwoRuns /\ [][NextTwoRuns]_vars

----------------------------------------------------------------------------
(* Runs over targets whose slugs have every shape *)

MaxSlugTargets == 2   \* configuration entries, slug family

\* Slugs with no, one and two slashes and with empty tokens.
SlugShapes ==
    {<<>>, <<"o">>, <<"o", "/">>, <<"/", "a">>, <<"o", "/", "a">>,
     <<"o", "/", "a", "/", "c">>, <<"/", "/">>}
WorldsSlug ==
    \/ \E kind \in {"unreadable", "badjson", "nolist"} : World(ConfigFile(kind, <<>>), <<>>)
    \/ \E n \in 0..MaxSlugTargets :
          \E slugs \in [1..n -> SlugShapes], ok \in [1..n -> BOOLEAN] :
              World(ConfigFile("list", [k \in 1..n |-> StringEntry(slugs[k])]),
                    [k \in 1..n |-> IF ok[k] THEN OkResponse(k, <<PlainKind(TagMinor)>>)
                                     ELSE HttpError])

InitSlug ==
    /\ WorldsSlug
    /\ clock = 1
    /\ run = 1
    /\ previous = <<>>
    /\ ProcessStarts
    /\ NoCalls

SpecSlug == InitSlug /\ [][Next]_vars

----------------------------------------------------------------------------
(* Stand-alone calls of isMajorOrMinorRelease and wrapInCdata *)

MaxCoreLen == 5       \* characters of the numeric part of a tag
MaxContentLen == 6    \* characters of a CDATA content string

\* No process runs while a function is called on its own.
NoProcess ==
    /\ config = ConfigFile("list", <<>>)
    /\ api = <<>>
    /\ clock = 1
    /\ run = 1
    /\ previous = <<>>
    /\ pc = "idle"
    /\ repositories = <<>>
    /\ idx = 1
    /\ results = <<>>
    /\ errors = <<>>
    /\ requests = <<>>
    /\ output = None
    /\ warned = <<>>
    /\ exitCode = 0

\* Tags: an optional prefix, every string of digits and dots, and a tail
\* that is empty, a suffix, or something that is no suffix.
TagPrefixes == {<<>>, <<"v">>, <<"x">>}
TagCoreCharacters == {"0", "1", "."}
TagTails ==
    {<<>>, <<"-">>, <<"+">>, <<"-", "x">>, <<"+", "x">>, <<"-", "1">>,
     <<"x">>, <<"\n">>, <<"-", "\n">>, <<"+", "x", "\n">>}
InitTag ==
    /\ NoProcess
    /\ \/ tagArg = None
       \/ \E p \in TagPrefixes, t \in TagTails, n \in 0..MaxCoreLen :
             \E c \in [1..n -> TagCoreCharacters] : tagArg = Some(p \o c \o t)
    /\ tagRet = None
    /\ cdataArg = <<>>
    /\ cdataRet = None
    /\ bodyArg = None
    /\ itemRet = None

ClassifyTag ==
    /\ tagRet = None
    /\ tagRet' = Some(isMajorOrMinorRelease(tagArg))
    /\ UNCHANGED <<envVars, clock, run, previous, runVars, tagArg, cdataArg, cdataRet,
                   bodyArg, itemRet>>

SpecTag == InitTag /\ [][ClassifyTag]_vars

ContentCharacters == {"]", ">", "a"}

InitCdata ==
    /\ NoProcess
    /\ tagArg = None
    /\ tagRet = None
    /\ \E n \in 0..MaxContentLen : cdataArg \in [1..n -> ContentCharacters]
    /\ cdataRet = None
    /\ bodyArg = None
    /\ itemRet = None

WrapContent ==
    /\ cdataRet = None
    /\ cdataRet' = Some(wrapInCdata(ContentTag, cdataArg))
    /\ UNCHANGED <<envVars, clock, run, previous, runVars, tagArg, tagRet, cdataArg,
                   bodyArg, itemRet>>

SpecCdata == InitCdata /\ [][WrapContent]_vars

----------------------------------------------------------------------------
(* The <item> element of one release, by the body of the release *)

MaxHtmlPieces == 2    \* pieces of markup in the HTML of a body

\* What marked.parse may return: up to MaxHtmlPieces pieces of markup and
\* text, then nothing or a run of text around MAX_LENGTH characters long.
Repeat(c, n) == [k \in 1..n |-> c]
HtmlPieces ==
    {<<"<", "p", ">">>, <<"a">>, <<"\n">>,
     <<"&", "N", "b", "s", "p", ";">>, <<"<">>, <<">">>, <<"&">>,
     <<"<", "s", "c", "r", "i", "p", "t", ">">>,
     <<"<", "/", "S", "c", "r", "i", "p", "t", ">">>,
     <<"<", "S", "T", "Y", "L", "E", ">", "x", "<", "/", "s", "t", "y", "l", "e", ">">>}
HtmlTails ==
    {<<>>, Repeat("a", MAX_LENGTH), Repeat("a", MAX_LENGTH + 1),
     Repeat("a", MAX_LENGTH - 4) \o <<" ">> \o Repeat("a", 4)}
BlankMarkdowns == {<<>>, <<" ">>, <<"\n", " ", "\t">>}
TextMarkdown == <<" ", "a">>

InitBody ==
    /\ NoProcess
    /\ tagArg = None
    /\ tagRet = None
    /\ cdataArg = <<>>
    /\ cdataRet = None
    /\ \/ bodyArg = None
       \/ \E m \in BlankMarkdowns : bodyArg = Some(Body(m, <<>>))
       \/ \E n \in 0..MaxHtmlPieces, t \in HtmlTails :
             \E ps \in [1..n -> HtmlPieces] :
                 bodyArg = Some(Body(TextMarkdown, Concat(ps) \o t))
    /\ itemRet = None

\* A released minor version with the body bodyArg, fetched for a target
\* with the default maxReleases and put into a feed.
BodyRelease ==
    Release(<<1, 1>>, Some(TagMinor), FALSE, FALSE, Some(DateString(1)), None, bodyArg)
RenderBody ==
    /\ itemRet = None
    /\ itemRet' = Some(buildRssFeed(
                       FeedItemsOf(parseConfigEntry(StringEntry(SlugA))[1],
                                   <<BodyRelease>>), clock).items)
    /\ UNCHANGED <<envVars, clock, run, previous, runVars, tagArg, tagRet, cdataArg,
                   cdataRet, bodyArg>>

SpecBody == InitBody /\ [][RenderBody]_vars

----------------------------------------------------------------------------
(* Vocabulary of the properties *)

\* The release a feed item or an item element was made from: html_url is
\* <<target, position in the answer>>.
ReleaseAt(url) == api[url[1]].releases[url[2]]

\* The links of the written feed, in document order.
FeedLinks ==
    IF output = None THEN <<>>
    ELSE [k \in 1..Len(output[1].items) |-> output[1].items[k].link]

\* The links of the written feed that belong to target i.
LinksOfTarget(i) == {FeedLinks[k] : k \in {j \in 1..Len(FeedLinks) : FeedLinks[j][1] = i}}

\* Accumulation order of two releases: configuration order, then the
\* order of the API answer.
AccumulatedBefore(u, v) == u[1] < v[1] \/ (u[1] = v[1] /\ u[2] < v[2])

\* A tag of the shape vMAJOR.MINOR or vMAJOR.MINOR.PATCH, no suffix.
PlainVersionParts(tag) == SplitOn(Tail(tag), ".")
IsPlainVersion(tag) ==
    /\ tag # <<>> /\ Head(tag) = "v"
    /\ Len(PlainVersionParts(tag)) \in {2, 3}
    /\ \A k \in 1..Len(PlainVersionParts(tag)) : IsDigits(PlainVersionParts(tag)[k])
PlainPatchIsZero(tag) ==
    Len(PlainVersionParts(tag)) = 2 \/ ToNumber(PlainVersionParts(tag)[3]) = 0

\* Whether target i's answer was a list of releases that main kept.
TargetSucceeded(i) ==
    /\ SlugIsValid(config.repositories[i].slug[1])
    /\ api[i].ok /\ api[i].isList

----------------------------------------------------------------------------
(* C1: a released (non-draft, non-prerelease) plain version tag is left   *)
(* out of the feed when the target's includePatchReleases is false or     *)
(* absent and PATCH is not 0, and is in the feed in every other case, in  *)
(* particular with includePatchReleases true and PATCH not 0.  Stated for *)
(* answers short enough that maxReleases drops nothing.                   *)
PatchPolicyDecides ==
    pc = "done" =>
        \A i \in 1..Len(repositories) :
            (TargetSucceeded(i) /\ Len(api[i].releases) <= repositories[i].maxReleases) =>
                \A k \in 1..Len(api[i].releases) :
                    LET r == api[i].releases[k]
                        includePatch == config.repositories[i].includePatchReleases = Some(TRUE)
                    IN  (/\ ~r.draft /\ ~r.prerelease
                         /\ r.tag_name # None
                         /\ IsPlainVersion(r.tag_name[1]))
                        => (<<i, k>> \in LinksOfTarget(i)
                               <=> (includePatch \/ PlainPatchIsZero(r.tag_name[1])))

(* C2: no item of the feed comes from a release whose draft or prerelease *)
(* flag is true, whatever its tag.                                        *)
NoDraftNorPrereleaseInFeed ==
    /\ \A k \in 1..Len(results) :
          ~ReleaseAt(results[k].htmlUrl).draft /\ ~ReleaseAt(results[k].htmlUrl).prerelease
    /\ \A k \in 1..Len(FeedLinks) :
          ~ReleaseAt(FeedLinks[k]).draft /\ ~ReleaseAt(FeedLinks[k]).prerelease

\* A feed was written although a draft and a prerelease with a qualifying
\* tag were in the answer, next to a release that was kept.
DraftWithGoodTagSeen ==
    /\ pc = "done"
    /\ Len(FeedLinks) = 1
    /\ \E k \in 1..Len(api[1].releases) :
          api[1].releases[k].draft /\ ~api[1].releases[k].prerelease
          /\ api[1].releases[k].tag_name = Some(TagMinor)
    /\ \E k \in 1..Len(api[1].releases) :
          ~api[1].releases[k].draft /\ ~api[1].releases[k].prerelease
          /\ api[1].releases[k].tag_name = Some(TagMinor)

(* C5: for a target with a positive maxReleases the feed holds at most   *)
(* maxReleases items of it: exactly the first min(maxReleases, number of  *)
(* qualifying releases) qualifying releases of the answer, in the order   *)
(* of the answer; the cap is per repository, not global.                  *)
QualifyingUrls(i) ==
    LET urls == [k \in 1..Len(api[i].releases) |-> <<i, k>>]
        qualifies(url) == /\ ~ReleaseAt(url).draft /\ ~ReleaseAt(url).prerelease
                          /\ isMajorOrMinorRelease(ReleaseAt(url).tag_name)
    IN  SelectSeq(urls, qualifies)
FeedLinksOfTarget(i) ==
    LET own(url) == url[1] = i
    IN  SelectSeq(FeedLinks, own)
CapIsPerRepository ==
    pc = "done" =>
        \A i \in 1..Len(repositories) :
            (TargetSucceeded(i) /\ repositories[i].maxReleases >= 1) =>
                LET q == QualifyingUrls(i)
                    n == Min(repositories[i].maxReleases, Len(q))
                IN  /\ Len(FeedLinksOfTarget(i)) <= repositories[i].maxReleases
                    /\ Len(FeedLinksOfTarget(i)) = n
                    /\ {FeedLinksOfTarget(i)[k] : k \in 1..n} = {q[k] : k \in 1..n}
                    /\ (\A k \in 1..Len(q) :
                            /\ ReleaseAt(q[k]).published_at = ReleaseAt(q[1]).published_at
                            /\ ReleaseAt(q[k]).created_at = ReleaseAt(q[1]).created_at)
                          => FeedLinksOfTarget(i) = SubSeq(q, 1, n)

\* Two repositories with maxReleases = 2 and 5 qualifying releases each:
\* a feed of exactly 4 items, 2 per repository.
TwoReposCappedAtTwo ==
    /\ pc = "done"
    /\ Len(repositories) = 2
    /\ repositories[1].maxReleases = 2 /\ repositories[2].maxReleases = 2
    /\ Len(QualifyingUrls(1)) = 5 /\ Len(QualifyingUrls(2)) = 5
    /\ Len(FeedLinks) = 4
    /\ Len(FeedLinksOfTarget(1)) = 2 /\ Len(FeedLinksOfTarget(2)) = 2

----------------------------------------------------------------------------
\* The timestamp an item was given, and whether it is a date.
HasTimestamp(item) == item.publishedAt # None
HasDate(item) == HasTimestamp(item) /\ item.publishedAt[1].valid
DateOf(item) == item.publishedAt[1].at

\* The written feed lists the sorted results, item by item.
FeedFollowsResults ==
    /\ Len(FeedLinks) = Len(results)
    /\ \A k \in 1..Len(results) : FeedLinks[k] = results[k].htmlUrl

(* C6 as stated: the feed is in descending order of publishedAt: of two   *)
(* items the one with the later timestamp comes first, an item with no    *)
(* timestamp comes after every item that has one, and items with equal    *)
(* timestamps keep their order of accumulation.  Stated for feeds whose   *)
(* timestamps, where present, are all dates.                              *)
AllTimestampsAreDates ==
    \A k \in 1..Len(results) : HasTimestamp(results[k]) => HasDate(results[k])
FeedNewestFirstMissingLast ==
    (pc = "done" /\ AllTimestampsAreDates) =>
        /\ FeedFollowsResults
        /\ \A j, k \in 1..Len(results) :
              j < k =>
                LET a == results[j]
                    b == results[k]
                IN  /\ (HasDate(a) /\ HasDate(b)) => DateOf(a) >= DateOf(b)
                    /\ ~(~HasTimestamp(a) /\ HasTimestamp(b))
                    /\ (\/ (HasDate(a) /\ HasDate(b) /\ DateOf(a) = DateOf(b))
                        \/ (~HasTimestamp(a) /\ ~HasTimestamp(b)))
                         => AccumulatedBefore(a.htmlUrl, b.htmlUrl)

(* C6 as amended: when every timestamp of the feed is absent or a date,   *)
(* the feed is in descending order of publishedAt with an absent          *)
(* timestamp counted as the epoch: later comes first, an item with no     *)
(* timestamp comes after every item dated after the epoch, and items with *)
(* equal timestamps (an absent one equals the epoch) keep their order of  *)
(* accumulation.                                                          *)
EpochOr(item) == IF HasTimestamp(item) THEN DateOf(item) ELSE 0
FeedNewestFirstMissingAsEpoch ==
    (pc = "done" /\ AllTimestampsAreDates) =>
        /\ FeedFollowsResults
        /\ \A j, k \in 1..Len(results) :
              j < k =>
                LET a == results[j]
                    b == results[k]
                IN  /\ EpochOr(a) >= EpochOr(b)
                    /\ (~HasTimestamp(a) /\ HasDate(b)) => DateOf(b) <= 0
                    /\ EpochOr(a) = EpochOr(b) => AccumulatedBefore(a.htmlUrl, b.htmlUrl)

\* A feed of three items: one dated after the epoch, then one with no
\* timestamp, then a second one with no timestamp from a later repository.
MissingTimestampSorted ==
    /\ pc = "done"
    /\ Len(results) = 3
    /\ HasDate(results[1]) /\ DateOf(results[1]) > 0
    /\ ~HasTimestamp(results[2]) /\ ~HasTimestamp(results[3])
    /\ results[1].htmlUrl[1] = 1 /\ results[1].htmlUrl[2] = 2
    /\ results[3].htmlUrl[1] = 2

----------------------------------------------------------------------------
\* The error lines main has collected after the first n targets: one per
\* failed target, in configuration order, naming its slug.
RECURSIVE FailedSlugs(_)
FailedSlugs(n) ==
    IF n = 0 THEN <<>>
    ELSE IF TargetSucceeded(n) THEN FailedSlugs(n - 1)
    ELSE Append(FailedSlugs(n - 1), config.repositories[n].slug[1])

\* The requests main has issued after the first n targets.
RECURSIVE RequestedSlugs(_)
RequestedSlugs(n) ==
    IF n = 0 THEN <<>>
    ELSE IF ~SlugIsValid(config.repositories[n].slug[1]) THEN RequestedSlugs(n - 1)
    ELSE Append(RequestedSlugs(n - 1), config.repositories[n].slug[1])

ConfigIsValid ==
    /\ config.kind = "list"
    /\ \A k \in 1..Len(config.repositories) :
          \/ config.repositories[k].type = "string"
          \/ config.repositories[k].type = "object" /\ config.repositories[k].slug # None

TargetsHandled == IF pc = "fetch" THEN idx - 1 ELSE Len(config.repositories)

(* C7: a failing target (invalid slug, error status, body that is no     *)
(* list) never aborts the run: every later target is still processed, the *)
(* written feed holds the items of every target that succeeded, exactly   *)
(* one warning line naming the slug is recorded per failed target, and    *)
(* the exit code stays 0.                                                 *)
TargetFailureIsIsolated ==
    (ConfigIsValid /\ pc # "start") =>
        /\ Len(repositories) = Len(config.repositories)
        /\ [k \in 1..Len(errors) |-> errors[k].slug] = FailedSlugs(TargetsHandled)
        /\ [k \in 1..Len(requests) |-> requests[k].owner \o <<"/">> \o requests[k].repo]
             = RequestedSlugs(TargetsHandled)
        /\ pc \in {"fetch", "done"} => exitCode = 0
        /\ pc = "failed" => idx > Len(repositories)
        /\ pc = "done" =>
             /\ idx > Len(repositories)
             /\ warned = errors
             /\ \A i \in 1..Len(repositories) :
                   LET fetched == FeedItemsOf(repositories[i], api[i].releases)
                   IN  /\ TargetSucceeded(i) =>
                            {FeedLinksOfTarget(i)[k] : k \in 1..Len(FeedLinksOfTarget(i))}
                              = {fetched[k].htmlUrl : k \in 1..Len(fetched)}
                       /\ ~TargetSucceeded(i) => FeedLinksOfTarget(i) = <<>>

\* Of three targets the first fails after its request and the other two
\* succeed: the feed holds their two items and one warning is recorded.
OneOfThreeFailed ==
    /\ pc = "done"
    /\ Len(repositories) = 3
    /\ ~api[1].ok
    /\ TargetSucceeded(2) /\ TargetSucceeded(3)
    /\ Len(FeedLinksOfTarget(2)) = 1 /\ Len(FeedLinksOfTarget(3)) = 1
    /\ Len(warned) = 1 /\ warned[1].slug = repositories[1].slug
    /\ Len(requests) = 3
    /\ exitCode = 0

(* C8: a configuration error (unreadable file, invalid JSON, no          *)
(* 'repositories' list, or an entry at any position that is neither a     *)
(* string nor an object with a string slug) is fatal: the run ends with a *)
(* non-zero exit code, no request is issued for any target and the output *)
(* file is not written.                                                   *)
ConfigErrorIsFatal ==
    ~ConfigIsValid =>
        /\ requests = <<>>
        /\ output = None
        /\ results = <<>>
        /\ pc \in {"start", "failed"}
        /\ pc = "failed" => exitCode # 0
        /\ pc = "start" => ENABLED ConfigFails

\* The run has failed on a list whose last entry is invalid, after two
\* entries that would have been fetched.
InvalidLastEntryAborted ==
    /\ pc = "failed"
    /\ exitCode = 1
    /\ config.kind = "list"
    /\ Len(config.repositories) = 3
    /\ config.repositories[1] = StringEntry(SlugA)
    /\ config.repositories[2] = StringEntry(SlugB)
    /\ config.repositories[3].type = "object"
    /\ requests = <<>>
    /\ output = None

----------------------------------------------------------------------------
(* C9: two runs with the same configuration and the same API answers,    *)
(* started at different times, write documents that differ only in        *)
(* lastBuildDate: every item element, the pubDate of an item without      *)
(* published_at and created_at included, is the same in both.  Stated for *)
(* runs whose sort has one outcome only.                                  *)
RerunWritesSameItems ==
    (/\ run = 2 /\ pc = "done"
     /\ previous # None
     /\ ConsistentComparator(results))
      => output[1].items = previous[1].items

----------------------------------------------------------------------------
\* The shape of C3, read off the tag from its end: some split of the tag
\* into a numeric part and a rest, where the rest is empty or starts with
\* '-' or '+', and the numeric part is an optional 'v', then two or three
\* non-empty groups of digits separated by dots.
NumericPartOk(part) ==
    LET core == IF part # <<>> /\ Head(part) = "v" THEN Tail(part) ELSE part
    IN  /\ Len(SplitOn(core, ".")) \in {2, 3}
        /\ \A k \in 1..Len(SplitOn(core, ".")) : IsDigits(SplitOn(core, ".")[k])
HasVersionShape(tag) ==
    \E p \in 0..Len(tag) :
        /\ NumericPartOk(SubSeq(tag, 1, p))
        /\ p = Len(tag) \/ tag[p + 1] \in {"-", "+"}
IsMajorMinorOnly(tag) ==
    /\ Len(SplitOn(tag, ".")) = 2
    /\ \A k \in 1..2 : IsDigits(SplitOn(tag, ".")[k])

(* C3: isMajorOrMinorRelease accepts a tag only when the whole tag has   *)
(* the shape [v]MAJOR.MINOR[.PATCH][suffix starting with - or +]; an      *)
(* absent or empty tag and a tag that matches only as a prefix or not at  *)
(* all are excluded; MAJOR.MINOR with no patch counts as patch 0 and is   *)
(* included.                                                              *)
OnlyWholeShapeAccepted ==
    tagRet # None =>
        /\ tagRet[1] => (tagArg # None /\ tagArg[1] # <<>> /\ HasVersionShape(tagArg[1]))
        /\ (tagArg = None \/ tagArg = Some(<<>>)) => ~tagRet[1]
        /\ (tagArg # None /\ ~HasVersionShape(tagArg[1])) => ~tagRet[1]
        /\ (tagArg # None /\ IsMajorMinorOnly(tagArg[1])) => tagRet[1]

\* The tag '1.1', with no patch component, has been accepted.
MajorMinorAccepted ==
    /\ tagArg = Some(<<"1", ".", "1">>)
    /\ tagRet = Some(TRUE)

\* The place of the first '-' or '+' of a tag, 0 when it has none.
SuffixStart(tag) ==
    IF \A k \in 1..Len(tag) : tag[k] \notin {"-", "+"} THEN 0
    ELSE CHOOSE k \in 1..Len(tag) :
             tag[k] \in {"-", "+"} /\ \A j \in 1..(k - 1) : tag[j] \notin {"-", "+"}
WithoutSuffix(tag) == SubSeq(tag, 1, SuffixStart(tag) - 1)
SuffixOf(tag) == SubSeq(tag, SuffixStart(tag), Len(tag))

(* C4 as stated: a suffix does not by itself exclude a release: a tag    *)
(* with a suffix is classified as the same tag with the suffix removed.   *)
SuffixNeverDecides ==
    (tagRet # None /\ tagArg # None /\ SuffixStart(tagArg[1]) > 0) =>
        tagRet[1] = isMajorOrMinorRelease(Some(WithoutSuffix(tagArg[1])))

(* C4 as amended: a suffix that holds no line terminator does not by     *)
(* itself exclude a release: the tag is classified as the same tag with   *)
(* the suffix removed.                                                    *)
OneLineSuffixNeverDecides ==
    (/\ tagRet # None /\ tagArg # None /\ SuffixStart(tagArg[1]) > 0
     /\ \A k \in 1..Len(tagArg[1]) : tagArg[1][k] \notin LineTerminators) =>
        tagRet[1] = isMajorOrMinorRelease(Some(WithoutSuffix(tagArg[1])))

\* The tag 'v1.0-x' has been accepted, as 'v1.0' is.
SuffixedTagAccepted ==
    /\ tagArg = Some(<<"v", "1", ".", "0", "-", "x">>)
    /\ tagRet = Some(TRUE)

----------------------------------------------------------------------------
\* An XML reader on the element wrapInCdata returns: the character data
\* of its CDATA sections when the content between the start tag and the
\* end tag is CDATA sections and nothing else, <<>> otherwise.  A section
\* runs from '<![CDATA[' to the first ']]>' after it.
FirstCdataEnd(s, from) ==
    IF \E j \in from..Len(s) : StartsWithAt(s, j, CdataEnd)
    THEN CHOOSE j \in from..Len(s) :
             /\ StartsWithAt(s, j, CdataEnd)
             /\ \A h \in from..(j - 1) : ~StartsWithAt(s, h, CdataEnd)
    ELSE 0
RECURSIVE ReadSections(_, _, _)
ReadSections(s, i, endTag) ==
    IF StartsWithAt(s, i, CdataOpen)
    THEN LET from == i + Len(CdataOpen)
             j == FirstCdataEnd(s, from)
         IN  IF j = 0 THEN None
             ELSE LET rest == ReadSections(s, j + Len(CdataEnd), endTag)
                  IN  IF rest = None THEN None
                      ELSE Some(<<SubSeq(s, from, j - 1)>> \o rest[1])
    ELSE IF StartsWithAt(s, i, endTag) /\ i + Len(endTag) - 1 = Len(s)
    THEN Some(<<>>)
    ELSE None
CdataSections(tagName, element) ==
    LET startTag == <<"<">> \o tagName \o <<">">>
        endTag == <<"<", "/">> \o tagName \o <<">">>
    IN  IF StartsWithAt(element, 1, startTag)
        THEN ReadSections(element, Len(startTag) + 1, endTag)
        ELSE None

\* The occurrences of ']]>' in a string, counted as replace finds them.
RECURSIVE CdataEndCount(_)
CdataEndCount(s) ==
    IF s = <<>> THEN 0
    ELSE IF StartsWithAt(s, 1, CdataEnd) THEN 1 + CdataEndCount(SubSeq(s, 4, Len(s)))
    ELSE CdataEndCount(Tail(s))

(* C10: for every content string, with any number of ']]>' in it, the    *)
(* element wrapInCdata returns has no premature CDATA termination: its    *)
(* content is CDATA sections only, one more than the occurrences of ']]>' *)
(* wrapInCdata split, and the character data of the sections, put         *)
(* together, is the original string.                                      *)
CdataRoundTrips ==
    cdataRet # None =>
        LET sections == CdataSections(ContentTag, cdataRet[1])
        IN  /\ sections # None
            /\ Concat(sections[1]) = cdataArg
            /\ Len(sections[1]) = 1 + CdataEndCount(cdataArg)

\* A string with two adjacent ']]>' has been wrapped into three sections.
AdjacentCdataEndsWrapped ==
    /\ cdataArg = <<"]", "]", ">", "]", "]", ">">>
    /\ cdataRet # None
    /\ Len(CdataSections(ContentTag, cdataRet[1])[1]) = 3

----------------------------------------------------------------------------
BodyIsBlank ==
    bodyArg = None \/ \A k \in 1..Len(bodyArg[1].markdown) : IsSpace(bodyArg[1].markdown[k])
RenderedHtml == IF bodyArg = None THEN <<>> ELSE renderMarkdownToHtml(bodyArg[1])

(* C11: a release whose body is absent, empty or whitespace-only still    *)
(* gives an item, whose description is 'No release notes provided.' and    *)
(* whose content is the block '<p>No release notes provided.</p>'; and no  *)
(* item has an empty description, the fallback text being used also when   *)
(* the rendered HTML is not empty but strips to empty text.                *)
BlankBodyGetsFallback ==
    itemRet # None =>
        /\ Len(itemRet[1]) = 1
        /\ itemRet[1][1].description # <<>>
        /\ BodyIsBlank =>
              /\ itemRet[1][1].description = SummaryFallback
              /\ itemRet[1][1].content =
                    <<"<">> \o ContentTag \o <<">">> \o CdataOpen
                    \o <<"<", "p", ">">> \o SummaryFallback \o <<"<", "/", "p", ">">>
                    \o CdataEnd \o <<"<", "/">> \o ContentTag \o <<">">>
        /\ (RenderedHtml # <<>> /\ stripHtmlTags(RenderedHtml) = <<>>) =>
              itemRet[1][1].description = SummaryFallback

\* A whitespace-only body has been rendered with both fallbacks.
WhitespaceBodyRendered ==
    /\ itemRet # None
    /\ bodyArg # None
    /\ bodyArg[1].markdown # <<>>
    /\ BodyIsBlank
    /\ Len(itemRet[1]) = 1
    /\ itemRet[1][1].description = SummaryFallback

\* A body whose HTML is markup only has been rendered with the fallback text.
MarkupOnlyBodyRendered ==
    /\ itemRet # None
    /\ RenderedHtml # <<>>
    /\ stripHtmlTags(RenderedHtml) = <<>>
    /\ itemRet[1][1].description = SummaryFallback

\* A body whose text is longer than MAX_LENGTH has been cut.
LongBodyRendered ==
    /\ itemRet # None
    /\ Len(stripHtmlTags(RenderedHtml)) > MAX_LENGTH
    /\ Len(itemRet[1][1].description) <= MAX_LENGTH

----------------------------------------------------------------------------
\* Every configured target has been taken by the loop, and has either
\* been answered or been given an error line.
AllTargetsFetched ==
    /\ Len(repositories) = Len(config.repositories)
    /\ idx = Len(repositories) + 1
    /\ Len(requests) =
          Cardinality({i \in 1..Len(repositories) : SlugIsValid(repositories[i].slug)})
    /\ Len(errors) + Cardinality({i \in 1..Len(repositories) : TargetSucceeded(i)})
          = Len(repositories)

(* C12: in a run the output file is written at most once and only after   *)
(* the fetch of every configured target has completed or failed: no write  *)
(* happens between two fetches; once the loop is over the write is what    *)
(* comes next, also when every target failed or no release qualified; and  *)
(* a run that ends without the file, the write having failed, ends with a  *)
(* non-zero exit code.                                                     *)
WrittenOnceAtEnd ==
    [][/\ (pc = "fetch" /\ idx > Len(repositories)) =>
             SortOutcomes(results) # {} /\ pc' \in {"done", "failed"}
       /\ pc' = "done" <=> output' # None
       /\ pc' = "failed" => exitCode' # 0 /\ output' = None
       /\ output' # output => output = None /\ AllTargetsFetched /\ pc' = "done"
       /\ (pc = "fetch" /\ pc' = "failed") => AllTargetsFetched]_vars

\* Two targets have both failed and the feed has been written with no item.
EmptyFeedWrittenAfterFailures ==
    /\ pc = "done"
    /\ Len(repositories) = 2
    /\ Len(errors) = 2
    /\ output # None
    /\ output[1].items = <<>>

\* The write failed after the loop over two targets.
WriteFailedAfterLoop ==
    /\ pc = "failed"
    /\ Len(repositories) = 2
    /\ idx = 3
    /\ Len(requests) = 2

----------------------------------------------------------------------------
\* 'owner/name': two non-empty tokens separated by one '/'.
OwnerNameShape(slug) ==
    /\ Cardinality({k \in 1..Len(slug) : slug[k] = "/"}) = 1
    /\ slug[1] # "/"
    /\ slug[Len(slug)] # "/"
MalformedTargets == {i \in 1..TargetsHandled : ~OwnerNameShape(repositories[i].slug)}

(* C13: every target whose slug is not of the shape 'owner/name' (so '',   *)
(* 'owner', 'owner/', '/name' and 'a/b/c') fails before any request is     *)
(* issued for it: the requests issued so far are those of the other        *)
(* targets, an error line naming the slug is recorded for it, and the run  *)
(* goes on with the next target.                                           *)
MalformedSlugRejected ==
    (config.kind = "list" /\ pc # "start") =>
        /\ Len(requests) = TargetsHandled - Cardinality(MalformedTargets)
        /\ \A i \in MalformedTargets :
              \E k \in 1..Len(errors) :
                  errors[k].slug = repositories[i].slug /\ errors[k].message = "slug"
        /\ pc # "fetch" => idx > Len(repositories)

----------------------------------------------------------------------------
(* C14: every target parseConfigEntry returns has a maxReleases that is a *)
(* positive integer (10 when the entry gives none), so every request asks  *)
(* for a page of 1 to 50 releases and the feed never holds more than       *)
(* maxReleases items of a target; an entry whose maxReleases is zero or    *)
(* negative is not turned into a target with that value.                   *)
TargetsHaveValidCap ==
    /\ \A i \in 1..Len(repositories) :
          /\ repositories[i].maxReleases >= 1
          /\ config.repositories[i].maxReleases = None =>
                repositories[i].maxReleases = 10
    /\ \A k \in 1..Len(requests) : requests[k].per_page \in 1..50
    /\ pc = "done" =>
          \A i \in 1..Len(repositories) :
              Len(FeedLinksOfTarget(i)) <= repositories[i].maxReleases

============================================================================
